---- MODULE Spec2Model ----
(***************************************************************************)
(* Model of the github-app-auth crate (src/src/lib.rs): the installation   *)
(* token manager InstallationToken, its construction (new), its credential *)
(* request (header -> refresh) and the exchange get_installation_token.    *)
(*                                                                         *)
(* A SystemTime is [secs, nanos] (secs relative to UNIX_EPOCH, negative    *)
(* before it); a Duration is [secs, nanos].  Strings that reach a header   *)
(* value are sequences of byte values.  Every clock read, the signing      *)
(* primitive, the transport and the remote service are environment inputs. *)
(***************************************************************************)
EXTENDS Integers, Sequences, FiniteSets

VARIABLES mgr, last, good

vars == <<mgr, last, good>>

(***************************************************************************)
(* Bounds of the model.                                                    *)
(***************************************************************************)
\* The clock is read at the epoch, at the refresh threshold past it and up
\* to MaxOver whole seconds later (and once before the epoch).
MaxOver == 1

(***************************************************************************)
(* Program constants.                                                      *)
(***************************************************************************)
NANOS_PER_SEC == 1000000000
\* 55 * 60, the refresh threshold of refresh()
REFRESH_SECS == 55 * 60
\* the lifetime of a JWT: exp = now + 60
JWT_LIFETIME == 60

(***************************************************************************)
(* Time: std::time::SystemTime and Duration.                               *)
(***************************************************************************)
UNIX_EPOCH == [secs |-> 0, nanos |-> 0]

\* sub-second positions of a clock reading: on the second, and half past
Nanos == {0, NANOS_PER_SEC \div 2}

Secs == {0} \cup {REFRESH_SECS + d : d \in 0..MaxOver}

\* a clock value before the epoch
BeforeEpoch == [secs |-> -1, nanos |-> NANOS_PER_SEC \div 2]

\* the values a clock read returns
Instants == {BeforeEpoch} \cup [secs : Secs, nanos : Nanos]

\* a <= b on SystemTime
TimeLeq(a, b) == a.secs < b.secs \/ (a.secs = b.secs /\ a.nanos <= b.nanos)

\* (variant: saturating_duration_since, a zero Duration in place of the
\* error)
DurationSinceSaturating(self, earlier) ==
    IF TimeLeq(earlier, self)
    THEN IF self.nanos >= earlier.nanos
         THEN [ok |-> TRUE, secs |-> self.secs - earlier.secs,
               nanos |-> self.nanos - earlier.nanos]
         ELSE [ok |-> TRUE, secs |-> self.secs - earlier.secs - 1,
               nanos |-> self.nanos + NANOS_PER_SEC - earlier.nanos]
    ELSE [ok |-> TRUE, secs |-> 0, nanos |-> 0]

\* SystemTime::duration_since: Err(SystemTimeError) when `earlier` is later
\* than self, else the Duration between them (with the nanosecond borrow).
DurationSince(self, earlier) ==
    IF TimeLeq(earlier, self)
    THEN IF self.nanos >= earlier.nanos
         THEN [ok |-> TRUE, secs |-> self.secs - earlier.secs,
               nanos |-> self.nanos - earlier.nanos]
         ELSE [ok |-> TRUE, secs |-> self.secs - earlier.secs - 1,
               nanos |-> self.nanos + NANOS_PER_SEC - earlier.nanos]
    ELSE [ok |-> FALSE, secs |-> 0, nanos |-> 0]

\* (variant: the seconds rounded up, a started second counted)
AsSecsCeil(d) == IF d.nanos > 0 THEN d.secs + 1 ELSE d.secs

\* Duration::as_secs: the whole seconds, the fractional part dropped
AsSecs(d) == d.secs

(***************************************************************************)
(* Byte strings and HTTP header values.                                    *)
(***************************************************************************)
\* "token " as bytes
TokenPrefix == <<116, 111, 107, 101, 110, 32>>

\* format!("token {}", self.token)
FormatToken(token) == TokenPrefix \o token

\* http::header::HeaderValue: a byte is accepted when it is a tab or is
\* at least 32 and not DEL (127).
IsValidHeaderByte(b) == b = 9 \/ (b >= 32 /\ b # 127)

\* val.parse::<HeaderValue>(): Err(InvalidHeaderValue) on any rejected byte
ParseHeaderValue(val) ==
    IF \A i \in 1..Len(val) : IsValidHeaderByte(val[i])
    THEN [ok |-> TRUE, value |-> val]
    ELSE [ok |-> FALSE, value |-> <<>>]

\* tokens the remote service may return: "T1", "T2", and "T\n" (a token
\* that no header value can carry)
T1 == <<84, 49>>
T2 == <<84, 50>>
TBad == <<84, 10>>
Tokens == {T1, T2, TBad}

(***************************************************************************)
(* GithubAuthParams.                                                       *)
(***************************************************************************)
\* user agents: "ua" and "u\n"
UaGood == <<117, 97>>
UaBad == <<117, 10>>

\* private keys: the signing primitive accepts "pem" and rejects "junk"
KeyGood == "pem"
KeyBad == "junk"

GithubAuthParams ==
    { [user_agent |-> UaGood, private_key |-> KeyGood, app_id |-> 1234, installation_id |-> 5678],
      [user_agent |-> UaGood, private_key |-> KeyGood, app_id |-> 99, installation_id |-> 7],
      [user_agent |-> UaGood, private_key |-> KeyBad, app_id |-> 1234, installation_id |-> 5678],
      [user_agent |-> UaBad, private_key |-> KeyGood, app_id |-> 1234, installation_id |-> 5678] }

NoParams == [user_agent |-> <<>>, private_key |-> "", app_id |-> 0, installation_id |-> 0]

(***************************************************************************)
(* JwtClaims and the signing primitive.                                    *)
(***************************************************************************)
NoClaims == [iat |-> 0, exp |-> 0, iss |-> 0]

\* (variant: the ten minutes the remote service allows, not one)
JwtClaimsNewTenMinutes(params, now) ==
    LET d == DurationSince(now, UNIX_EPOCH) IN
    IF d.ok
    THEN [err |-> "", claims |-> [iat |-> AsSecs(d), exp |-> AsSecs(d) + 10 * JWT_LIFETIME,
                                  iss |-> params.app_id]]
    ELSE [err |-> "TimeError", claims |-> NoClaims]

\* JwtClaims::new with `now` the value SystemTime::now() returns in it:
\* Err(TimeError) when the clock is before the epoch, else iat = whole
\* seconds since the epoch, exp = iat + 60, iss = params.app_id.
JwtClaimsNew(params, now) ==
    LET d == DurationSince(now, UNIX_EPOCH) IN
    IF d.ok
    THEN [err |-> "", claims |-> [iat |-> AsSecs(d), exp |-> AsSecs(d) + JWT_LIFETIME,
                                  iss |-> params.app_id]]
    ELSE [err |-> "TimeError", claims |-> NoClaims]

NoJwt == [alg |-> "", claims |-> NoClaims, key |-> ""]

\* jsonwebtoken::encode(&header, &claims, &private_key) with header.alg =
\* RS256 and the key made of params.private_key: the primitive signs with
\* a key it accepts and fails (JwtError) with any other.
Encode(claims, private_key) ==
    IF private_key = KeyGood
    THEN [err |-> "", jwt |-> [alg |-> "RS256", claims |-> claims, key |-> private_key]]
    ELSE [err |-> "JwtError", jwt |-> NoJwt]

(***************************************************************************)
(* The remote service: what one POST can come back with.                   *)
(***************************************************************************)
MACHINE_MAN_PREVIEW == "application/vnd.github.machine-man-preview+json"

\* JSON values of the two fields of a response body
\* (token texts are byte strings, expires_at texts are date-time texts)
Absent == [kind |-> "absent", text |-> <<>>]
JString(t) == [kind |-> "string", text |-> t]
JNumber == [kind |-> "number", text |-> <<>>]
AbsentAt == [kind |-> "absent", text |-> <<>>]

\* texts of expires_at, as bytes:
\* "2016-07-11T22:14:10Z" (the text of the crate's test),
\* "2030-01-01T00:00:00+01:00" (an instant written with an offset),
\* "2016-07-11T22:14:10.5Z" (with a fraction of a second),
\* "2016-12-31T23:59:60Z" (a leap second),
\* " 2016-07-11 22:14:10 utc" (the relaxed form: blanks, no T, utc),
\* "soon" (no date) and "2016-02-30T00:00:00Z" (no day of the calendar)
Expiry1 == <<50, 48, 49, 54, 45, 48, 55, 45, 49, 49, 84, 50, 50, 58, 49, 52, 58, 49, 48, 90>>
Expiry2 == <<50, 48, 51, 48, 45, 48, 49, 45, 48, 49, 84, 48, 48, 58, 48, 48, 58, 48, 48,
             43, 48, 49, 58, 48, 48>>
ExpiryFraction == <<50, 48, 49, 54, 45, 48, 55, 45, 49, 49, 84, 50, 50, 58, 49, 52, 58, 49, 48,
                    46, 53, 90>>
ExpiryLeap == <<50, 48, 49, 54, 45, 49, 50, 45, 51, 49, 84, 50, 51, 58, 53, 57, 58, 54, 48, 90>>
ExpiryRelaxed == <<32, 50, 48, 49, 54, 45, 48, 55, 45, 49, 49, 32, 50, 50, 58, 49, 52, 58, 49,
                   48, 32, 117, 116, 99>>
ExpiryBad == <<115, 111, 111, 110>>
ExpiryNoDay == <<50, 48, 49, 54, 45, 48, 50, 45, 51, 48, 84, 48, 48, 58, 48, 48, 58, 48, 48, 90>>

Bodies ==
    [token : {JString(t) : t \in Tokens}, expires_at : {JString(Expiry1)}]
    \cup { [token |-> JString(T1), expires_at |-> JString(Expiry2)],
           [token |-> JString(T1), expires_at |-> JString(ExpiryFraction)],
           [token |-> JString(T1), expires_at |-> JString(ExpiryLeap)],
           [token |-> JString(T1), expires_at |-> JString(ExpiryRelaxed)],
           [token |-> Absent, expires_at |-> JString(Expiry1)],
           [token |-> JNumber, expires_at |-> JString(Expiry1)],
           [token |-> JString(T1), expires_at |-> AbsentAt],
           [token |-> JString(T1), expires_at |-> JNumber],
           [token |-> JString(T1), expires_at |-> JString(ExpiryBad)],
           [token |-> JString(T1), expires_at |-> JString(ExpiryNoDay)] }

EmptyBody == [token |-> Absent, expires_at |-> AbsentAt]

\* transport = FALSE: send() failed (no response arrived)
Responses ==
    { [transport |-> FALSE, status |-> 0, body |-> EmptyBody] }
    \cup [transport : {TRUE}, status : {201}, body : Bodies]
    \cup [transport : {TRUE}, status : {500}, body : {EmptyBody}]
    \cup [transport : {TRUE}, status : {300, 401},
           body : {[token |-> JString(T2), expires_at |-> JString(Expiry1)]}]

NoResponse == [transport |-> FALSE, status |-> 0, body |-> EmptyBody]

\* Response::error_for_status: an error for a 4xx or 5xx status
ErrorForStatus(status) == status >= 400 /\ status <= 599

\* decimal digits of a text
IsDigit(b) == b >= 48 /\ b <= 57
Num2(t, i) == 10 * (t[i] - 48) + (t[i + 1] - 48)

IsLeapYear(y) == (y % 4 = 0 /\ y % 100 # 0) \/ y % 400 = 0

DaysInMonth(y, m) ==
    IF m = 2 THEN (IF IsLeapYear(y) THEN 29 ELSE 28)
    ELSE IF m \in {4, 6, 9, 11} THEN 30 ELSE 31

\* days from 1970-01-01 to a day of the proleptic Gregorian calendar, the
\* year counted from March (yy), the month from March (mp, 0..11)
DaysFromMarch(yy, yoe, mp, d) ==
    (yy \div 400) * 146097
    + yoe * 365 + yoe \div 4 - yoe \div 100
    + (153 * mp + 2) \div 5 + d - 1
    - 719468

\* days from 1970-01-01 to the day y-m-d
DaysFromCivil(y, m, d) ==
    IF m <= 2
    THEN DaysFromMarch(y - 1, (y - 1) % 400, m + 9, d)
    ELSE DaysFromMarch(y, y % 400, m - 3, d)

\* the years a NaiveDate can hold
MIN_YEAR == -262143
MAX_YEAR == 262142

\* char::is_whitespace on the UTF-8 text t at byte i: the number of bytes of
\* the white-space character that starts there, 0 when none does
\* (U+0009..U+000D, U+0020; U+0085, U+00A0; U+1680, U+2000..U+200A, U+2028,
\* U+2029, U+202F, U+205F, U+3000)
WhiteSpaceAt(t, i) ==
    IF t[i] \in {9, 10, 11, 12, 13, 32} THEN 1
    ELSE IF i + 1 <= Len(t) /\ t[i] = 194 /\ t[i + 1] \in {133, 160} THEN 2
    ELSE IF /\ i + 2 <= Len(t)
            /\ \/ t[i] = 225 /\ t[i + 1] = 154 /\ t[i + 2] = 128
               \/ t[i] = 226 /\ t[i + 1] = 128 /\ t[i + 2] \in (128..138) \cup {168, 169, 175}
               \/ t[i] = 226 /\ t[i + 1] = 129 /\ t[i + 2] = 159
               \/ t[i] = 227 /\ t[i + 1] = 128 /\ t[i + 2] = 128
         THEN 3
    ELSE 0

\* Positions in a text are indices 1..Len(t)+1: the text from position i is
\* what is left to parse, and Len(t)+1 says nothing is left.

\* str::trim_start: the position of the first character that is no white
\* space
RECURSIVE TrimStart(_, _)
TrimStart(t, i) ==
    IF i <= Len(t) /\ WhiteSpaceAt(t, i) > 0
    THEN TrimStart(t, i + WhiteSpaceAt(t, i))
    ELSE i

\* scan::colon_or_space: colons and white space skipped, any number of them
RECURSIVE ColonOrSpace(_, _)
ColonOrSpace(t, i) ==
    IF i <= Len(t) /\ t[i] = 58 THEN ColonOrSpace(t, i + 1)
    ELSE IF i <= Len(t) /\ WhiteSpaceAt(t, i) > 0
         THEN ColonOrSpace(t, i + WhiteSpaceAt(t, i))
    ELSE i

\* the number of digits that start at i, counted up to max
RECURSIVE DigitRun(_, _, _)
DigitRun(t, i, max) ==
    IF max > 0 /\ i <= Len(t) /\ IsDigit(t[i]) THEN 1 + DigitRun(t, i + 1, max - 1) ELSE 0

\* the number of zeros that start at i
RECURSIVE ZeroRun(_, _)
ZeroRun(t, i) ==
    IF i <= Len(t) /\ t[i] = 48 THEN 1 + ZeroRun(t, i + 1) ELSE 0

\* the value of the n digits that start at i
RECURSIVE DecimalValue(_, _, _)
DecimalValue(t, i, n) ==
    IF n = 0 THEN 0 ELSE 10 * DecimalValue(t, i, n - 1) + (t[i + n - 1] - 48)

\* The items of the format (format::Item): a number of up to `width` digits
\* (any number of them after a sign, where one is allowed) stored in a field
\* of Parsed that takes the values lo..hi, white space, a literal byte, and
\* the optional fraction of a second.
Numeric(field, width, signed, lo, hi) ==
    [kind |-> "numeric", field |-> field, width |-> width, signed |-> signed,
     lo |-> lo, hi |-> hi, byte |-> 0]
Space ==
    [kind |-> "space", field |-> "", width |-> 0, signed |-> FALSE,
     lo |-> 0, hi |-> 0, byte |-> 0]
Literal(b) ==
    [kind |-> "literal", field |-> "", width |-> 0, signed |-> FALSE,
     lo |-> 0, hi |-> 0, byte |-> b]
Nanosecond ==
    [kind |-> "nanosecond", field |-> "nanosecond", width |-> 9, signed |-> FALSE,
     lo |-> 0, hi |-> 0, byte |-> 46]

\* the values of an i32, which Parsed keeps a year in (Parsed::set_year)
I32_MAX == 2147483647
I32_MIN == -I32_MAX - 1

DATE_ITEMS ==
    << Numeric("year", 4, TRUE, I32_MIN, I32_MAX), Space, Literal(45),
       Numeric("month", 2, FALSE, 1, 12), Space, Literal(45),
       Numeric("day", 2, FALSE, 1, 31) >>

TIME_ITEMS ==
    << Numeric("hour", 2, FALSE, 0, 23), Space, Literal(58),
       Numeric("minute", 2, FALSE, 0, 59), Space, Literal(58),
       Numeric("second", 2, FALSE, 0, 60), Nanosecond, Space >>

\* format::Parsed, no field set
NoParsed == [year |-> 0, month |-> 0, day |-> 0, hour |-> 0, minute |-> 0,
             second |-> 0, nanosecond |-> 0]

ParseError == [ok |-> FALSE, rest |-> 0, parsed |-> NoParsed]

\* format::parse_internal from item k on, with the text left from position
\* i: the fields set and the position of what is left when all items are
\* through, or an error
RECURSIVE ParseInternal(_, _, _, _, _)

\* Parsed::set_*: the value must be one the field takes
SetField(items, k, t, next, parsed, v) ==
    IF v >= items[k].lo /\ v <= items[k].hi
    THEN ParseInternal(items, k + 1, t, next, [parsed EXCEPT ![items[k].field] = v])
    ELSE ParseError

\* scan::number(s, 1, width) on the n digits found at j
NumericUnsigned(items, k, t, j, n, parsed) ==
    IF n = 0 THEN ParseError
    ELSE SetField(items, k, t, j + n, parsed, DecimalValue(t, j, n))

\* Numbers after a sign have any number of digits: scan::number refuses
\* one an i64 cannot hold and Parsed::set_* one an i32 cannot hold, so a
\* number goes on to the field exactly when it is a value of an i32, which
\* its digits tell: fewer than ten significant digits, or ten that are not
\* beyond those of the last value of its sign.
FitsI32(t, i, n, sign) ==
    \/ n < 10
    \/ /\ n = 10
       /\ \/ DecimalValue(t, i, 9) < I32_MAX \div 10
          \/ /\ DecimalValue(t, i, 9) = I32_MAX \div 10
             /\ t[i + 9] - 48 <= (IF sign < 0 THEN 8 ELSE 7)

\* the value of the n digits that start at i under the sign (0 - v for a
\* minus sign), digit by digit
RECURSIVE SignedValue(_, _, _, _)
SignedValue(t, i, n, sign) ==
    IF n = 0 THEN 0 ELSE 10 * SignedValue(t, i, n - 1, sign) + sign * (t[i + n - 1] - 48)

\* scan::number(s, 1, usize::MAX) after a sign, on the run digits found at
\* j, the first `zeros` of them zeros
NumericSigned(items, k, t, j, run, zeros, sign, parsed) ==
    IF run = 0 \/ ~FitsI32(t, j + zeros, run - zeros, sign) THEN ParseError
    ELSE SetField(items, k, t, j + run, parsed,
                  SignedValue(t, j + zeros, run - zeros, sign))

\* Item::Numeric, white space before it trimmed (j)
NumericItem(items, k, t, j, parsed) ==
    IF items[k].signed /\ j <= Len(t) /\ t[j] \in {43, 45}
    THEN NumericSigned(items, k, t, j + 1, DigitRun(t, j + 1, Len(t)), ZeroRun(t, j + 1),
                       IF t[j] = 45 THEN -1 ELSE 1, parsed)
    ELSE NumericUnsigned(items, k, t, j, DigitRun(t, j, items[k].width), parsed)

\* scan::nanosecond on the n digits (at most nine) found at j: they are the
\* first digits of nine; further digits are skipped
NanosecondDigits(items, k, t, j, n, parsed) ==
    IF n = 0 THEN ParseError
    ELSE ParseInternal(items, k + 1, t, j + DigitRun(t, j, Len(t)),
                       [parsed EXCEPT !.nanosecond = DecimalValue(t, j, n) * 10 ^ (9 - n)])

ParseInternal(items, k, t, i, parsed) ==
    IF k > Len(items) THEN [ok |-> TRUE, rest |-> i, parsed |-> parsed]
    ELSE IF items[k].kind = "numeric" THEN NumericItem(items, k, t, TrimStart(t, i), parsed)
    ELSE IF items[k].kind = "space" THEN ParseInternal(items, k + 1, t, TrimStart(t, i), parsed)
    ELSE IF items[k].kind = "literal"
         THEN IF i <= Len(t) /\ t[i] = items[k].byte
              THEN ParseInternal(items, k + 1, t, i + 1, parsed)
              ELSE ParseError
    ELSE IF i <= Len(t) /\ t[i] = items[k].byte
         THEN NanosecondDigits(items, k, t, i + 1, DigitRun(t, i + 1, items[k].width), parsed)
    ELSE ParseInternal(items, k + 1, t, i, parsed)

\* the result of parsing a date-time: an error, or the instant in UTC as
\* the day (days from 1970-01-01), the second of that day and the
\* nanoseconds of that second (1000000000 and more within a leap second)
DateTimeError == [ok |-> FALSE, days |-> 0, secs |-> 0, nanos |-> 0]

\* the instant of the day `days`, secs seconds from its start (which may be
\* before it or after its end): it must be on a day a NaiveDate can hold
InstantOf(days, secs, nanos) ==
    IF /\ days + secs \div 86400 >= DaysFromCivil(MIN_YEAR, 1, 1)
       /\ days + secs \div 86400 <= DaysFromCivil(MAX_YEAR, 12, 31)
    THEN [ok |-> TRUE, days |-> days + secs \div 86400, secs |-> secs % 86400,
          nanos |-> nanos]
    ELSE DateTimeError

\* Parsed::to_datetime: the day must be one of the calendar; second 60 is
\* second 59 with 1000000000 nanoseconds more; the offset is taken off the
\* local time
ToDateTime(parsed, offset) ==
    IF /\ parsed.year >= MIN_YEAR /\ parsed.year <= MAX_YEAR
       /\ parsed.day <= DaysInMonth(parsed.year, parsed.month)
    THEN InstantOf(DaysFromCivil(parsed.year, parsed.month, parsed.day),
                   parsed.hour * 3600 + parsed.minute * 60
                   + (IF parsed.second = 60 THEN 59 ELSE parsed.second) - offset,
                   parsed.nanosecond + (IF parsed.second = 60 THEN NANOS_PER_SEC ELSE 0))
    ELSE DateTimeError

\* from_str after the offset: only white space may be left
AfterOffset(t, i, offset, parsed) ==
    IF TrimStart(t, i) <= Len(t) THEN DateTimeError
    ELSE IF offset < -86340 \/ offset > 86340 THEN DateTimeError
    ELSE ToDateTime(parsed, offset)

\* scan::timezone_offset, the minutes: two digits, 00..59
OffsetMinutes(t, i, sign, hours, parsed) ==
    IF i + 1 <= Len(t) /\ t[i] >= 48 /\ t[i] <= 53 /\ IsDigit(t[i + 1])
    THEN AfterOffset(t, i + 2, sign * (hours * 3600 + Num2(t, i) * 60), parsed)
    ELSE DateTimeError

\* scan::timezone_offset, the hours: two digits, then colons and white
\* space
OffsetHours(t, i, sign, parsed) ==
    IF i + 1 <= Len(t) /\ IsDigit(t[i]) /\ IsDigit(t[i + 1])
    THEN OffsetMinutes(t, ColonOrSpace(t, i + 2), sign, Num2(t, i), parsed)
    ELSE DateTimeError

\* the offset: "UTC" in either case, Z or z, or a sign (+, - or U+2212)
\* with hours and minutes
TimezoneOffset(t, i, parsed) ==
    IF i > Len(t) THEN DateTimeError
    ELSE IF /\ i + 2 <= Len(t)
            /\ t[i] \in {85, 117} /\ t[i + 1] \in {84, 116} /\ t[i + 2] \in {67, 99}
         THEN AfterOffset(t, i + 3, 0, parsed)
    ELSE IF t[i] \in {90, 122} THEN AfterOffset(t, i + 1, 0, parsed)
    ELSE IF t[i] = 43 THEN OffsetHours(t, i + 1, 1, parsed)
    ELSE IF t[i] = 45 THEN OffsetHours(t, i + 1, -1, parsed)
    ELSE IF i + 2 <= Len(t) /\ t[i] = 226 /\ t[i + 1] = 136 /\ t[i + 2] = 146
         THEN OffsetHours(t, i + 3, -1, parsed)
    ELSE DateTimeError

\* parse_rfc3339_relaxed after the time: something must be left
AfterTime(t, r) ==
    IF r.ok /\ r.rest <= Len(t)
    THEN TimezoneOffset(t, TrimStart(t, r.rest), r.parsed)
    ELSE DateTimeError

\* parse_rfc3339_relaxed after the date: T, t or a blank, then the time
AfterDate(t, d) ==
    IF d.ok /\ d.rest <= Len(t) /\ t[d.rest] \in {84, 116, 32}
    THEN AfterTime(t, ParseInternal(TIME_ITEMS, 1, t, d.rest + 1, d.parsed))
    ELSE DateTimeError

\* chrono's DateTime<Utc> deserializer on the text of expires_at
\* (<DateTime<FixedOffset> as FromStr>::from_str, then with_timezone(&Utc)):
\* RFC 3339 in its relaxed form, white space allowed around the fields, and
\* the instant the text denotes.
ParseDateTime(text) == AfterDate(text, ParseInternal(DATE_ITEMS, 1, text, 1, NoParsed))

NoInstant == [days |-> 0, secs |-> 0, nanos |-> 0]

NoRaw == [token |-> <<>>, expires_at |-> NoInstant]

\* the expires_at field of a body: a string holding a date-time
ExpiresAt(jv) ==
    IF jv.kind = "string" THEN ParseDateTime(jv.text) ELSE DateTimeError

\* (variant: a missing token taken as the empty string, as under
\* #[serde(default)])
RawOfTokenDefault(body, at) ==
    IF body.token.kind \in {"string", "absent"} /\ at.ok
    THEN [ok |-> TRUE,
          raw |-> [token |-> body.token.text,
                   expires_at |-> [days |-> at.days, secs |-> at.secs, nanos |-> at.nanos]]]
    ELSE [ok |-> FALSE, raw |-> NoRaw]

\* the RawInstallationToken of a body whose expires_at field parsed as `at`:
\* the token field must be there and be a string
RawOf(body, at) ==
    IF body.token.kind = "string" /\ at.ok
    THEN [ok |-> TRUE,
          raw |-> [token |-> body.token.text,
                   expires_at |-> [days |-> at.days, secs |-> at.secs, nanos |-> at.nanos]]]
    ELSE [ok |-> FALSE, raw |-> NoRaw]

\* Response::json::<RawInstallationToken>(): both fields present, token a
\* string, expires_at a string holding a date-time
ParseRaw(body) == RawOf(body, ExpiresAt(body.expires_at))

(***************************************************************************)
(* get_installation_token.                                                 *)
(***************************************************************************)
NoRequest == [sent |-> FALSE, installation_id |-> 0, bearer |-> NoJwt,
              accept |-> "", user_agent |-> <<>>]

\* the POST to .../app/installations/{installation_id}/access_tokens
PostRequest(client, params, jwt) ==
    [sent |-> TRUE, installation_id |-> params.installation_id, bearer |-> jwt,
     accept |-> MACHINE_MAN_PREVIEW, user_agent |-> client.user_agent]

\* (variant: the request sent before the result of encode() is looked at)
GetInstallationTokenSendsUnsigned(client, params, jwt_now, resp) ==
    LET c == JwtClaimsNew(params, jwt_now)
        e == Encode(c.claims, params.private_key)
        p == ParseRaw(resp.body)
        mk(err, raw, built, req) ==
            [err |-> err, raw |-> raw, built |-> built,
             claims |-> IF built THEN c.claims ELSE NoClaims, request |-> req,
             requests |-> IF req.sent THEN 1 ELSE 0]
    IN  IF c.err # "" THEN mk(c.err, NoRaw, FALSE, NoRequest)
        ELSE IF e.err # ""
             THEN mk(e.err, NoRaw, TRUE, PostRequest(client, params, e.jwt))
        ELSE IF ~resp.transport
             THEN mk("ReqwestError", NoRaw, TRUE, PostRequest(client, params, e.jwt))
        ELSE IF ErrorForStatus(resp.status)
             THEN mk("ReqwestError", NoRaw, TRUE, PostRequest(client, params, e.jwt))
        ELSE IF ~p.ok
             THEN mk("ReqwestError", NoRaw, TRUE, PostRequest(client, params, e.jwt))
        ELSE mk("", p.raw, TRUE, PostRequest(client, params, e.jwt))

\* One exchange.  jwt_now is the clock read in JwtClaims::new, resp what
\* the POST comes back with.  The result carries the error ("" for Ok),
\* the parsed RawInstallationToken, the claims built, the request sent and
\* the number of requests sent.
GetInstallationToken(client, params, jwt_now, resp) ==
    LET c == JwtClaimsNew(params, jwt_now)
        e == Encode(c.claims, params.private_key)
        p == ParseRaw(resp.body)
        mk(err, raw, built, req) ==
            [err |-> err, raw |-> raw, built |-> built,
             claims |-> IF built THEN c.claims ELSE NoClaims, request |-> req,
             requests |-> IF req.sent THEN 1 ELSE 0]
    IN  IF c.err # "" THEN mk(c.err, NoRaw, FALSE, NoRequest)
        ELSE IF e.err # "" THEN mk(e.err, NoRaw, TRUE, NoRequest)
        ELSE IF ~resp.transport
             THEN mk("ReqwestError", NoRaw, TRUE, PostRequest(client, params, e.jwt))
        ELSE IF ErrorForStatus(resp.status)
             THEN mk("ReqwestError", NoRaw, TRUE, PostRequest(client, params, e.jwt))
        ELSE IF ~p.ok
             THEN mk("ReqwestError", NoRaw, TRUE, PostRequest(client, params, e.jwt))
        ELSE mk("", p.raw, TRUE, PostRequest(client, params, e.jwt))

\* the exchange that makes no call at all (refresh() on a fresh token)
NoExchange == [err |-> "", raw |-> NoRaw, built |-> FALSE, claims |-> NoClaims,
               request |-> NoRequest, requests |-> 0]

(***************************************************************************)
(* InstallationToken.                                                      *)
(***************************************************************************)
NoClient == [user_agent |-> <<>>]

\* the state in which no manager exists (before a successful new())
NoManager == [exists |-> FALSE, client |-> NoClient, token |-> <<>>,
              fetch_time |-> UNIX_EPOCH, params |-> NoParams]

\* reqwest::blocking::Client::builder().user_agent(ua).build(): an error
\* when the user agent is no header value or the backend (env_ok) fails
ClientBuild(user_agent, env_ok) ==
    IF env_ok /\ ParseHeaderValue(user_agent).ok
    THEN [err |-> "", client |-> [user_agent |-> user_agent]]
    ELSE [err |-> "ReqwestError", client |-> NoClient]

\* (variant: a failed exchange yields a manager with an empty token)
InstallationTokenNewLenient(params, env_ok, jwt_now, resp, post_now) ==
    LET b == ClientBuild(params.user_agent, env_ok)
        x == GetInstallationToken(b.client, params, jwt_now, resp)
    IN  IF b.err # "" THEN [err |-> b.err, self |-> NoManager, exchange |-> NoExchange,
                            exchanges |-> 0]
        ELSE [err |-> "",
              self |-> [exists |-> TRUE, client |-> b.client, token |-> x.raw.token,
                        fetch_time |-> post_now, params |-> params],
              exchange |-> x, exchanges |-> 1]

\* InstallationToken::new.  post_now is the SystemTime::now() of the
\* struct literal, read after the exchange returned.
InstallationTokenNew(params, env_ok, jwt_now, resp, post_now) ==
    LET b == ClientBuild(params.user_agent, env_ok)
        x == GetInstallationToken(b.client, params, jwt_now, resp)
    IN  IF b.err # "" THEN [err |-> b.err, self |-> NoManager, exchange |-> NoExchange,
                            exchanges |-> 0]
        ELSE IF x.err # "" THEN [err |-> x.err, self |-> NoManager, exchange |-> x,
                                 exchanges |-> 1]
        ELSE [err |-> "",
              self |-> [exists |-> TRUE, client |-> b.client, token |-> x.raw.token,
                        fetch_time |-> post_now, params |-> params],
              exchange |-> x, exchanges |-> 1]

\* (variant: the threshold set at the 60 minutes after which the service
\* expires a token)
StaleAtExpiry(elapsed) == AsSecs(elapsed) > 60 * 60

\* (variant: the threshold taken as reached, >= in place of >)
StaleAtThreshold(elapsed) == AsSecs(elapsed) >= REFRESH_SECS

\* the test of refresh(): elapsed.as_secs() > (55 * 60)
Stale(elapsed) == AsSecs(elapsed) > REFRESH_SECS

\* refresh() from the elapsed time on: x is what the exchange (made only
\* when the token is stale) does
RefreshAfter(self, elapsed, x, post_now) ==
    IF ~elapsed.ok
    THEN [err |-> "TimeError", self |-> self, exchange |-> NoExchange, exchanges |-> 0]
    ELSE IF Stale(elapsed)
    THEN IF x.err # ""
         THEN [err |-> x.err, self |-> self, exchange |-> x, exchanges |-> 1]
         ELSE [err |-> "",
               self |-> [self EXCEPT !.token = x.raw.token, !.fetch_time = post_now],
               exchange |-> x, exchanges |-> 1]
    ELSE [err |-> "", self |-> self, exchange |-> NoExchange, exchanges |-> 0]

\* (variant: the fetch time taken from the clock read of the staleness
\* check, not from a read made after the exchange)
RefreshStampsCheckTime(self, now, jwt_now, resp, post_now) ==
    LET elapsed == DurationSince(now, self.fetch_time)
        x == GetInstallationToken(self.client, self.params, jwt_now, resp)
    IN  IF ~elapsed.ok
        THEN [err |-> "TimeError", self |-> self, exchange |-> NoExchange, exchanges |-> 0]
        ELSE IF Stale(elapsed)
        THEN IF x.err # ""
             THEN [err |-> x.err, self |-> self, exchange |-> x, exchanges |-> 1]
             ELSE [err |-> "",
                   self |-> [self EXCEPT !.token = x.raw.token, !.fetch_time = now],
                   exchange |-> x, exchanges |-> 1]
        ELSE [err |-> "", self |-> self, exchange |-> NoExchange, exchanges |-> 0]

\* (variant: the fetch time stamped before the exchange is attempted, so
\* that a failed exchange leaves it changed)
RefreshStampsFirst(self, now, jwt_now, resp, post_now) ==
    LET elapsed == DurationSince(now, self.fetch_time)
        x == GetInstallationToken(self.client, self.params, jwt_now, resp)
    IN  IF ~elapsed.ok
        THEN [err |-> "TimeError", self |-> self, exchange |-> NoExchange, exchanges |-> 0]
        ELSE IF Stale(elapsed)
        THEN IF x.err # ""
             THEN [err |-> x.err, self |-> [self EXCEPT !.fetch_time = now],
                   exchange |-> x, exchanges |-> 1]
             ELSE [err |-> "",
                   self |-> [self EXCEPT !.token = x.raw.token, !.fetch_time = post_now],
                   exchange |-> x, exchanges |-> 1]
        ELSE [err |-> "", self |-> self, exchange |-> NoExchange, exchanges |-> 0]

\* (variant: the fetch time derived from the expiry the service declared,
\* an hour before it)
RefreshStampsFromExpiry(self, now, jwt_now, resp, post_now) ==
    LET elapsed == DurationSince(now, self.fetch_time)
        x == GetInstallationToken(self.client, self.params, jwt_now, resp)
    IN  IF ~elapsed.ok
        THEN [err |-> "TimeError", self |-> self, exchange |-> NoExchange, exchanges |-> 0]
        ELSE IF Stale(elapsed)
        THEN IF x.err # ""
             THEN [err |-> x.err, self |-> self, exchange |-> x, exchanges |-> 1]
             ELSE [err |-> "",
                   self |-> [self EXCEPT !.token = x.raw.token,
                                         !.fetch_time = [secs |-> x.raw.expires_at.days * 86400
                                                                  + x.raw.expires_at.secs - 60 * 60,
                                                         nanos |-> 0]],
                   exchange |-> x, exchanges |-> 1]
        ELSE [err |-> "", self |-> self, exchange |-> NoExchange, exchanges |-> 0]

\* (variant: the exchange of a refresh made with a client of its own, built
\* without the user agent)
RefreshWithOwnClient(self, now, jwt_now, resp, post_now) ==
    LET elapsed == DurationSince(now, self.fetch_time)
        x == GetInstallationToken(NoClient, self.params, jwt_now, resp)
    IN  IF ~elapsed.ok
        THEN [err |-> "TimeError", self |-> self, exchange |-> NoExchange, exchanges |-> 0]
        ELSE IF Stale(elapsed)
        THEN IF x.err # ""
             THEN [err |-> x.err, self |-> self, exchange |-> x, exchanges |-> 1]
             ELSE [err |-> "",
                   self |-> [self EXCEPT !.token = x.raw.token, !.fetch_time = post_now],
                   exchange |-> x, exchanges |-> 1]
        ELSE [err |-> "", self |-> self, exchange |-> NoExchange, exchanges |-> 0]

\* InstallationToken::refresh.  now is the clock read of the staleness
\* check, jwt_now and resp those of the exchange, post_now the clock read
\* after the exchange returned.
Refresh(self, now, jwt_now, resp, post_now) ==
    RefreshAfter(self, DurationSince(now, self.fetch_time),
                 GetInstallationToken(self.client, self.params, jwt_now, resp), post_now)

\* header() once the header value is parsed: r is what refresh() did, val
\* the result of val.parse()
HeaderOfValue(r, val) ==
    IF r.err # ""
    THEN [err |-> r.err, self |-> r.self, exchange |-> r.exchange,
          exchanges |-> r.exchanges, authorization |-> <<>>]
    ELSE IF ~val.ok
    THEN [err |-> "InvalidHeaderValue", self |-> r.self, exchange |-> r.exchange,
          exchanges |-> r.exchanges, authorization |-> <<>>]
    ELSE [err |-> "", self |-> r.self, exchange |-> r.exchange,
          exchanges |-> r.exchanges, authorization |-> val.value]

\* header() after refresh() returned r: the header value is made of the
\* token stored then
HeaderAfterRefresh(r) == HeaderOfValue(r, ParseHeaderValue(FormatToken(r.self.token)))

\* (variant: the error of refresh() dropped, the stored token returned)
HeaderOfFallback(self, now, jwt_now, resp, post_now) ==
    LET r == Refresh(self, now, jwt_now, resp, post_now)
        val == ParseHeaderValue(FormatToken(r.self.token))
    IN  IF ~val.ok
        THEN [err |-> "InvalidHeaderValue", self |-> r.self, exchange |-> r.exchange,
              exchanges |-> r.exchanges, authorization |-> <<>>]
        ELSE [err |-> "", self |-> r.self, exchange |-> r.exchange,
              exchanges |-> r.exchanges, authorization |-> val.value]

\* (variant: the header value formatted from the token held before
\* refresh() ran)
HeaderOfEarlyFormat(self, now, jwt_now, resp, post_now) ==
    LET r == Refresh(self, now, jwt_now, resp, post_now)
        val == ParseHeaderValue(FormatToken(self.token))
    IN  IF r.err # ""
        THEN [err |-> r.err, self |-> r.self, exchange |-> r.exchange,
              exchanges |-> r.exchanges, authorization |-> <<>>]
        ELSE IF ~val.ok
        THEN [err |-> "InvalidHeaderValue", self |-> r.self, exchange |-> r.exchange,
              exchanges |-> r.exchanges, authorization |-> <<>>]
        ELSE [err |-> "", self |-> r.self, exchange |-> r.exchange,
              exchanges |-> r.exchanges, authorization |-> val.value]

\* InstallationToken::header: refresh()?, then the Authorization header
\* made of "token " and the stored token.  headers is the value of the one
\* entry of the HeaderMap returned (<<>> when an error is returned).
HeaderOf(self, now, jwt_now, resp, post_now) ==
    HeaderAfterRefresh(Refresh(self, now, jwt_now, resp, post_now))

(***************************************************************************)
(* State.                                                                  *)
(*   mgr   the InstallationToken value the caller holds (NoManager before  *)
(*         a successful new())                                             *)
(*   last  what the call that has just returned did and returned, until    *)
(*         the caller has taken the result                                 *)
(*   good  the most recent exchange that succeeded: the token it returned  *)
(*         and the clock value read right after it                         *)
(***************************************************************************)
\* op: the operation; params: the GithubAuthParams it ran with; now: the
\* clock read of the staleness check; jwt_now: the clock read of
\* JwtClaims::new (when an exchange was made); err: the error returned ("" for
\* Ok); authorization: the header value returned; exchanges: the calls of
\* get_installation_token made; exchange: what that call did; resp: what
\* its POST came back with (NoResponse when none was sent)
NoOp == [op |-> "none", params |-> NoParams, now |-> UNIX_EPOCH, jwt_now |-> UNIX_EPOCH,
         err |-> "", authorization |-> <<>>, exchanges |-> 0, exchange |-> NoExchange,
         resp |-> NoResponse]

\* no call is being looked at: the caller has taken the last result
Idle == [NoOp EXCEPT !.op = "idle"]

NoGood == [any |-> FALSE, token |-> <<>>, at |-> UNIX_EPOCH]

Init ==
    /\ mgr = NoManager
    /\ last = NoOp
    /\ good = NoGood

\* the exchange of an operation succeeded at post_now
Succeeded(r, post_now) ==
    IF r.exchanges = 1 /\ r.exchange.err = ""
    THEN [any |-> TRUE, token |-> r.exchange.raw.token, at |-> post_now]
    ELSE good

\* The clock values and the response an operation consumes: a read the
\* operation does not reach is not an input of it.
JwtReads(exchanges) == IF exchanges = 1 THEN Instants ELSE {UNIX_EPOCH}
RespReads(probe) == IF probe.request.sent THEN Responses ELSE {NoResponse}
PostReads(x) == IF x.request.sent /\ x.err = "" THEN Instants ELSE {UNIX_EPOCH}

\* let token = InstallationToken::new(params)
New ==
    /\ last.op \in {"none", "idle"}
    /\ ~mgr.exists
    /\ \E params \in GithubAuthParams, env_ok \in BOOLEAN :
       \E jwt_now \in JwtReads(IF ClientBuild(params.user_agent, env_ok).err = "" THEN 1 ELSE 0) :
       \E resp \in RespReads(InstallationTokenNew(params, env_ok, jwt_now, NoResponse,
                                                  UNIX_EPOCH).exchange) :
       \E post_now \in PostReads(InstallationTokenNew(params, env_ok, jwt_now, resp,
                                                      UNIX_EPOCH).exchange) :
          \E r \in {InstallationTokenNew(params, env_ok, jwt_now, resp, post_now)} :
          /\ mgr' = r.self
          /\ last' = [op |-> "new", params |-> params, now |-> UNIX_EPOCH,
                      jwt_now |-> jwt_now,
                      err |-> r.err, authorization |-> <<>>,
                      exchanges |-> r.exchanges, exchange |-> r.exchange,
                      resp |-> resp]
          /\ good' = Succeeded(r, post_now)

\* token.header()
Header ==
    /\ last.op \in {"none", "idle"}
    /\ mgr.exists
    /\ \E now \in Instants :
       \E jwt_now \in JwtReads(HeaderOf(mgr, now, UNIX_EPOCH, NoResponse, UNIX_EPOCH).exchanges) :
       \E resp \in RespReads(HeaderOf(mgr, now, jwt_now, NoResponse, UNIX_EPOCH).exchange) :
       \E post_now \in PostReads(HeaderOf(mgr, now, jwt_now, resp, UNIX_EPOCH).exchange) :
          \E r \in {HeaderOf(mgr, now, jwt_now, resp, post_now)} :
          /\ mgr' = r.self
          /\ last' = [op |-> "header", params |-> mgr.params, now |-> now,
                      jwt_now |-> jwt_now,
                      err |-> r.err, authorization |-> r.authorization,
                      exchanges |-> r.exchanges, exchange |-> r.exchange,
                      resp |-> resp]
          /\ good' = Succeeded(r, post_now)

\* the caller takes the Result of the call (let header = token.header()...)
\* and goes on to its next call
Return ==
    /\ last.op \in {"new", "header"}
    /\ last' = Idle
    /\ UNCHANGED <<mgr, good>>

Next == New \/ Header \/ Return

Spec == Init /\ [][Next]_vars

\* a credential request would find the stored token past the threshold: a
\* clock value exists for which refresh() attempts the exchange
CanRefresh ==
    /\ last.op \in {"none", "idle"}
    /\ mgr.exists
    /\ \E now \in Instants :
          DurationSince(now, mgr.fetch_time).ok /\ Stale(DurationSince(now, mgr.fetch_time))

\* a credential request whose exchange succeeds
HeaderExchangeSucceeds ==
    /\ last.op \in {"none", "idle"}
    /\ last'.op = "header"
    /\ last'.exchanges = 1
    /\ last'.exchange.err = ""

\* The program with a caller that keeps going and a service that answers in
\* the end: the caller always takes the result of a call (WF), and a
\* credential request whose exchange succeeds is made when it is possible
\* again and again (strong fairness, with the condition under which such a
\* request is possible written out).
LiveSpec ==
    /\ Init /\ [][Next]_vars
    /\ WF_vars(Return)
    /\ ([]<>CanRefresh) => ([]<><<HeaderExchangeSucceeds>>_vars)

(***************************************************************************)
(* Vocabulary of the properties.                                           *)
(***************************************************************************)
\* this step is a credential request
HeaderStep == last'.op = "header"

\* the time from `earlier` to `now` is defined and is at most / more than
\* the 3300 seconds of 55 minutes, at the resolution of the clock
ElapsedAtMostThreshold(now, earlier) ==
    /\ TimeLeq(earlier, now)
    /\ TimeLeq(now, [secs |-> earlier.secs + 3300, nanos |-> earlier.nanos])

ElapsedOverThreshold(now, earlier) ==
    /\ TimeLeq(earlier, now)
    /\ ~TimeLeq(now, [secs |-> earlier.secs + 3300, nanos |-> earlier.nanos])

\* the time from `earlier` to `now` is exactly n whole seconds
ElapsedExactly(now, earlier, n) ==
    now = [secs |-> earlier.secs + n, nanos |-> earlier.nanos]

\* the time from `earlier` to `now` is at least n whole seconds
ElapsedAtLeast(now, earlier, n) ==
    TimeLeq([secs |-> earlier.secs + n, nanos |-> earlier.nanos], now)

\* t is a value an Authorization header can carry
Encodable(t) == \A i \in 1..Len(t) : t[i] = 9 \/ (t[i] >= 32 /\ t[i] # 127)

\* "token " followed by t
TokenHeader(t) == <<116, 111, 107, 101, 110, 32>> \o t

\* a credential request that made no exchange and no network request and
\* left the manager as it was
NoExchangeNoChange ==
    /\ last'.exchanges = 0
    /\ ~last'.exchange.request.sent
    /\ mgr'.token = mgr.token
    /\ mgr'.fetch_time = mgr.fetch_time

(***************************************************************************)
(* C1, as stated: a credential request made at most 3300 seconds after the *)
(* fetch time makes no network exchange, leaves token and fetch time as    *)
(* they were, and returns a header built from the stored token.            *)
(* (Refuted: a stored token that no header value can carry makes the       *)
(* request fail with InvalidHeaderValue.)                                  *)
(***************************************************************************)
C1_AsStated ==
    [][ (HeaderStep /\ ElapsedAtMostThreshold(last'.now, mgr.fetch_time))
        => /\ NoExchangeNoChange
           /\ last'.err = ""
           /\ last'.authorization = TokenHeader(mgr.token) ]_vars

(***************************************************************************)
(* C1, amended: a credential request made at most 3300 seconds after the   *)
(* fetch time makes no network exchange and leaves token and fetch time as *)
(* they were; it returns a header built from the stored token when that    *)
(* token can be carried by a header value, and fails with                  *)
(* InvalidHeaderValue (returning no header) when it cannot.                *)
(***************************************************************************)
C1_FreshNoExchange ==
    [][ (HeaderStep /\ ElapsedAtMostThreshold(last'.now, mgr.fetch_time))
        => /\ NoExchangeNoChange
           /\ IF Encodable(mgr.token)
              THEN last'.err = "" /\ last'.authorization = TokenHeader(mgr.token)
              ELSE last'.err = "InvalidHeaderValue" /\ last'.authorization = <<>> ]_vars

\* a request exactly 3300 seconds after the fetch returned the stored T1
C1_Witness ==
    /\ last.op = "header"
    /\ last.exchanges = 0
    /\ last.err = ""
    /\ ElapsedExactly(last.now, mgr.fetch_time, 3300)
    /\ mgr.token = T1
    /\ last.authorization = TokenHeader(T1)

(***************************************************************************)
(* C2, as stated: a credential request made more than 55 minutes after the *)
(* fetch time makes exactly one exchange; if it succeeds the stored token  *)
(* is the one it returned and the fetch time is the clock value read after *)
(* it, which is later than the previous fetch time.                        *)
(* (Refuted: the elapsed time is compared in whole seconds, so 55 minutes  *)
(* and a fraction of a second make no exchange; and the clock read after   *)
(* the exchange need not be later than the previous fetch time.)           *)
(***************************************************************************)
C2_AsStated ==
    [][ (HeaderStep /\ ElapsedOverThreshold(last'.now, mgr.fetch_time))
        => /\ last'.exchanges = 1
           /\ last'.exchange.err = ""
              => /\ mgr'.token = last'.exchange.raw.token
                 /\ mgr'.fetch_time = good'.at
                 /\ mgr'.fetch_time # mgr.fetch_time
                 /\ TimeLeq(mgr.fetch_time, mgr'.fetch_time) ]_vars

(***************************************************************************)
(* C2, amended: a credential request made at least 3301 whole seconds      *)
(* after the fetch time makes exactly one exchange; if it succeeds the     *)
(* stored token is the one it returned and the fetch time is the clock     *)
(* value read after it, which is later than the previous fetch time        *)
(* whenever that read is not earlier than the read of the staleness check. *)
(***************************************************************************)
C2_StaleOneExchange ==
    [][ (HeaderStep /\ ElapsedAtLeast(last'.now, mgr.fetch_time, 3301))
        => /\ last'.exchanges = 1
           /\ last'.exchange.err = ""
              => /\ mgr'.token = last'.exchange.raw.token
                 /\ good'.token = last'.exchange.raw.token
                 /\ mgr'.fetch_time = good'.at
                 /\ TimeLeq(last'.now, good'.at)
                    => /\ mgr'.fetch_time # mgr.fetch_time
                       /\ TimeLeq(mgr.fetch_time, mgr'.fetch_time) ]_vars

\* a refresh replaced the token by T2 and stamped a later clock value
C2_Witness ==
    /\ last.op = "header"
    /\ last.exchanges = 1
    /\ last.exchange.err = ""
    /\ last.exchange.raw.token = T2
    /\ mgr.token = T2
    /\ mgr.fetch_time = good.at
    /\ last.now = [secs |-> 3301, nanos |-> 0]
    /\ TimeLeq(last.now, mgr.fetch_time)
    /\ last.now # mgr.fetch_time

(***************************************************************************)
(* C3: when the exchange of a refresh fails, at whatever step, the stored  *)
(* token and fetch time after the credential request are those before it.  *)
(***************************************************************************)
C3_FailureIsolation ==
    [][ (HeaderStep /\ last'.exchanges = 1 /\ last'.exchange.err # "")
        => /\ mgr'.token = mgr.token
           /\ mgr'.fetch_time = mgr.fetch_time
           /\ mgr' = mgr ]_vars

\* a refresh whose POST was sent and whose exchange failed
C3_Witness ==
    /\ last.op = "header"
    /\ last.exchanges = 1
    /\ last.exchange.request.sent
    /\ last.exchange.err = "ReqwestError"
    /\ mgr.exists
    /\ ElapsedAtLeast(last.now, mgr.fetch_time, 3301)

(***************************************************************************)
(* C4: the threshold is strict: a credential request exactly 3300 seconds  *)
(* after the fetch time makes no exchange, one exactly 3301 seconds after  *)
(* it makes one.                                                           *)
(***************************************************************************)
C4_StrictThreshold ==
    [][ HeaderStep
        => /\ ElapsedExactly(last'.now, mgr.fetch_time, 3300) => last'.exchanges = 0
           /\ ElapsedExactly(last'.now, mgr.fetch_time, 3301) => last'.exchanges = 1 ]_vars

\* a refresh was attempted exactly 3301 seconds after the fetch (it failed,
\* so the fetch time is still the one it was measured from)
C4_Witness ==
    /\ last.op = "header"
    /\ last.exchanges = 1
    /\ last.exchange.err # ""
    /\ ElapsedExactly(last.now, mgr.fetch_time, 3301)

(***************************************************************************)
(* C5: the stored token and the stored fetch time always belong to the     *)
(* same successful exchange (the most recent one), and an operation that   *)
(* changes either of them is one whose exchange succeeded and sets both    *)
(* from that exchange: neither is ever set alone.                          *)
(***************************************************************************)
C5_UpdatedTogether ==
    [][ /\ mgr'.exists
           => /\ good'.any
              /\ mgr'.token = good'.token
              /\ mgr'.fetch_time = good'.at
        /\ (mgr'.token # mgr.token \/ mgr'.fetch_time # mgr.fetch_time)
           => /\ last'.exchanges = 1
              /\ last'.exchange.err = ""
              /\ mgr'.token = last'.exchange.raw.token
              /\ good'.token = last'.exchange.raw.token
              /\ mgr'.fetch_time = good'.at ]_vars

\* after a refresh, token T2 and a fetch time past the threshold, both of
\* the exchange that just succeeded
C5_Witness ==
    /\ last.op = "header"
    /\ last.exchanges = 1
    /\ last.exchange.err = ""
    /\ mgr.token = T2
    /\ good.token = T2
    /\ mgr.fetch_time = [secs |-> 3301, nanos |-> NANOS_PER_SEC \div 2]
    /\ good.at = mgr.fetch_time

(***************************************************************************)
(* C6: construction yields a manager exactly when it returns no error, and *)
(* then the transport handle was built and the one exchange succeeded; a   *)
(* failure of either returns the error and leaves no manager.  Every       *)
(* manager holds a token that a successful exchange returned.              *)
(***************************************************************************)
C6_ConstructionAllOrNothing ==
    /\ last.op = "new"
       => /\ mgr.exists <=> last.err = ""
          /\ last.exchanges = 0 => (last.err = "ReqwestError" /\ ~mgr.exists)
          /\ (last.exchanges = 1 /\ last.exchange.err # "")
             => (last.err = last.exchange.err /\ ~mgr.exists)
          /\ mgr.exists
             => /\ last.exchanges = 1
                /\ last.exchange.err = ""
                /\ last.exchange.request.sent
                /\ mgr.client.user_agent = last.params.user_agent
                /\ Encodable(mgr.client.user_agent)
                /\ mgr.token = last.exchange.raw.token
                /\ mgr.params = last.params
    /\ mgr.exists
       => /\ good.any
          /\ mgr.token = good.token
          /\ mgr.token \in Tokens
    /\ (last.op = "none" \/ (last.op = "new" /\ last.err # "")) => mgr = NoManager

\* a construction that succeeded with token T1
C6_Witness ==
    /\ last.op = "new"
    /\ last.err = ""
    /\ mgr.exists
    /\ mgr.token = T1
    /\ last.exchange.raw.token = T1

(***************************************************************************)
(* C7: when a credential request finds the token past the threshold and    *)
(* the refresh fails, the request returns that error and no header: not    *)
(* one carrying the old token, not one carrying an empty token.            *)
(***************************************************************************)
C7_NoSilentFallback ==
    (last.op = "header" /\ last.exchanges = 1 /\ last.exchange.err # "")
    => /\ last.err # ""
       /\ last.err = last.exchange.err
       /\ last.authorization = <<>>
       /\ last.authorization # TokenHeader(mgr.token)
       /\ last.authorization # TokenHeader(<<>>)

\* a refresh refused by the remote service: the request returned the error
C7_Witness ==
    /\ last.op = "header"
    /\ last.exchanges = 1
    /\ last.exchange.request.sent
    /\ last.exchange.err = "ReqwestError"
    /\ last.err = "ReqwestError"
    /\ mgr.token = T1
    /\ Encodable(mgr.token)

(***************************************************************************)
(* C8: every credential request that succeeds returns the Authorization    *)
(* value "token " followed by the token of the most recent successful      *)
(* exchange.                                                               *)
(***************************************************************************)
C8_HeaderCarriesLatestToken ==
    (last.op = "header" /\ last.err = "")
    => /\ good.any
       /\ last.authorization = TokenHeader(good.token)

\* "token T2" returned by the request whose refresh obtained T2
C8_Witness ==
    /\ last.op = "header"
    /\ last.err = ""
    /\ last.exchanges = 1
    /\ last.exchange.raw.token = T2
    /\ last.authorization = <<116, 111, 107, 101, 110, 32, 84, 50>>

(***************************************************************************)
(* C9: a credential request at which the clock reads earlier than the      *)
(* stored fetch time fails with TimeError, makes no exchange and no        *)
(* network request, returns no header and leaves token and fetch time as   *)
(* they were.                                                              *)
(***************************************************************************)
C9_ClockBeforeFetch ==
    [][ (HeaderStep /\ ~TimeLeq(mgr.fetch_time, last'.now))
        => /\ last'.err = "TimeError"
           /\ last'.authorization = <<>>
           /\ NoExchangeNoChange ]_vars

\* a request made with the clock set back before the fetch time
C9_Witness ==
    /\ last.op = "header"
    /\ last.err = "TimeError"
    /\ last.exchanges = 0
    /\ mgr.fetch_time = [secs |-> 3300, nanos |-> 0]
    /\ last.now = [secs |-> 0, nanos |-> NANOS_PER_SEC \div 2]

(***************************************************************************)
(* C10: whenever an exchange reads a clock value at or after the epoch the *)
(* claims are built, with issuer the application id of the parameters,     *)
(* issued-at the whole seconds since the epoch of that clock value, and    *)
(* expiry issued-at + 60.                                                  *)
(***************************************************************************)
C10_ClaimsOfAssertion ==
    (last.exchanges = 1 /\ last.jwt_now.secs >= 0)
    => /\ last.exchange.built
       /\ last.exchange.claims.iss = last.params.app_id
       /\ last.exchange.claims.iat = last.jwt_now.secs
       /\ last.exchange.claims.exp = last.exchange.claims.iat + 60

\* claims built half a second past 3300 for application 99
C10_Witness ==
    /\ last.exchanges = 1
    /\ last.exchange.built
    /\ last.params.app_id = 99
    /\ last.jwt_now = [secs |-> 3300, nanos |-> NANOS_PER_SEC \div 2]
    /\ last.exchange.claims = [iat |-> 3300, exp |-> 3360, iss |-> 99]

\* the POST of the last call was sent and came back with a success status
Answered ==
    /\ last.exchange.request.sent
    /\ last.resp.transport
    /\ ~ErrorForStatus(last.resp.status)

\* the parsed expiry of the last exchange: the day (days from 1970-01-01),
\* the second of the day and the nanoseconds
ParsedExpiryIs(days, secs, nanos) ==
    /\ last.exchange.err = ""
    /\ last.exchange.raw.token = last.resp.body.token.text
    /\ last.exchange.raw.expires_at = [days |-> days, secs |-> secs, nanos |-> nanos]

\* the date-time texts of the responses parse to the instants they denote
WellFormedParses ==
    (Answered /\ last.resp.body.token.kind = "string")
    => /\ last.resp.body.expires_at \in {JString(Expiry1), JString(ExpiryRelaxed)}
          => ParsedExpiryIs(16993, 80050, 0)
       /\ last.resp.body.expires_at = JString(ExpiryFraction)
          => ParsedExpiryIs(16993, 80050, NANOS_PER_SEC \div 2)
       /\ last.resp.body.expires_at = JString(Expiry2)
          => ParsedExpiryIs(21914, 82800, 0)
       /\ last.resp.body.expires_at = JString(ExpiryLeap)
          => ParsedExpiryIs(17166, 86399, NANOS_PER_SEC)

\* a body in which a field is missing or is no string, or in which
\* expires_at is a string that is no date-time, fails the exchange
MalformedFails ==
    (/\ Answered
     /\ \/ last.resp.body.token.kind # "string"
        \/ last.resp.body.expires_at.kind # "string"
        \/ last.resp.body.expires_at \in {JString(ExpiryBad), JString(ExpiryNoDay)})
    => /\ last.exchange.err = "ReqwestError"
       /\ last.err = "ReqwestError"
       /\ last.exchange.raw = NoRaw

(***************************************************************************)
(* C11: a response body with a string token and a date-time expires_at     *)
(* parses to exactly that token and exactly the instant the text denotes:  *)
(* "2016-07-11T22:14:10Z" is second 80050 (22:14:10) of day 16993          *)
(* (2016-07-11), also when written in the relaxed form; with ".5" after    *)
(* the seconds it is half a second later; "2030-01-01T00:00:00+01:00" is   *)
(* 2029-12-31T23:00:00Z, second 82800 of day 21914; the leap second        *)
(* "2016-12-31T23:59:60Z" is the second after 23:59:59 of day 17166, kept  *)
(* as that second with 1000000000 nanoseconds.  A body in which either     *)
(* field is missing or is no string, or in which expires_at is no          *)
(* date-time, fails the exchange and the call with ReqwestError.           *)
(***************************************************************************)
C11_ExactParse == WellFormedParses /\ MalformedFails

\* the body {"token": "T2", "expires_at": "2016-07-11T22:14:10Z"} parsed
C11_Witness ==
    /\ Answered
    /\ last.resp.body = [token |-> JString(T2), expires_at |-> JString(Expiry1)]
    /\ last.exchange.err = ""
    /\ last.exchange.raw.token = T2
    /\ last.exchange.raw.expires_at = [days |-> 16993, secs |-> 80050, nanos |-> 0]

(***************************************************************************)
(* C12, as stated: a credential request refreshes for every elapsed time   *)
(* of more than 3300 seconds, measured at the resolution of the clock,     *)
(* 3300 seconds and a fraction of a second included.                       *)
(* (Refuted: the elapsed time is compared in whole seconds, so a request   *)
(* made 3300.5 seconds after the fetch makes no exchange.)                 *)
(***************************************************************************)
C12_AsStated ==
    [][ (HeaderStep /\ ElapsedOverThreshold(last'.now, mgr.fetch_time))
        => last'.exchanges = 1 ]_vars

(***************************************************************************)
(* C12, amended: a credential request whose clock read is not before the   *)
(* fetch time refreshes exactly when the whole seconds of the elapsed time *)
(* exceed 3300, that is when at least 3301 seconds have elapsed; an        *)
(* elapsed time of 3300 seconds and a fraction makes no exchange.          *)
(***************************************************************************)
C12_WholeSecondsOverThreshold ==
    [][ (HeaderStep /\ TimeLeq(mgr.fetch_time, last'.now))
        => /\ last'.exchanges = 1 <=> ElapsedAtLeast(last'.now, mgr.fetch_time, 3301)
           /\ last'.exchanges = 0 <=> ~ElapsedAtLeast(last'.now, mgr.fetch_time, 3301) ]_vars

\* a request made 3300.5 seconds after the fetch made no exchange
C12_Witness ==
    /\ last.op = "header"
    /\ last.exchanges = 0
    /\ last.err = ""
    /\ mgr.fetch_time = [secs |-> 0, nanos |-> 0]
    /\ last.now = [secs |-> 3300, nanos |-> NANOS_PER_SEC \div 2]

\* the credential request that has just returned attempted an exchange,
\* which failed
FailedRefresh ==
    /\ last.op = "header"
    /\ last.exchanges = 1
    /\ last.exchange.err # ""

\* the credential request that has just returned made an exchange that
\* succeeded, and returned the header carrying the token of that exchange,
\* which is the token now stored
RefreshedHeader ==
    /\ last.op = "header"
    /\ last.exchanges = 1
    /\ last.exchange.err = ""
    /\ last.err = ""
    /\ last.authorization = TokenHeader(last.exchange.raw.token)
    /\ mgr.token = last.exchange.raw.token

\* the credential request that has just returned made an exchange that
\* succeeded with a token no header value can carry
RefreshedUnencodable ==
    /\ last.op = "header"
    /\ last.exchanges = 1
    /\ last.exchange.err = ""
    /\ ~Encodable(last.exchange.raw.token)

(***************************************************************************)
(* C13: a failed refresh does not stop later refreshes.  With a caller     *)
(* that keeps making credential requests and a service whose exchange      *)
(* succeeds in the end, a failed refresh is followed by a credential       *)
(* request that makes the exchange again and returns the header carrying   *)
(* the newly obtained token (unless that token is one no header value can  *)
(* carry).                                                                 *)
(***************************************************************************)
C13_RetryAfterFailure ==
    FailedRefresh ~> (RefreshedHeader \/ RefreshedUnencodable)

\* a refresh of the stored T1 that the service answered with status 500
C13_Witness ==
    /\ FailedRefresh
    /\ last.resp.transport
    /\ last.resp.status = 500
    /\ last.err = "ReqwestError"
    /\ mgr.token = T1
    /\ ElapsedAtLeast(last.now, mgr.fetch_time, 3301)

(***************************************************************************)
(* C14: no internal retry.  Construction and every credential request make *)
(* at most one exchange, and an exchange sends at most one network         *)
(* request, whatever the outcome; when that request fails in transport or  *)
(* comes back with a status that is not a success (not 2xx), the call      *)
(* returns ReqwestError (and no header) having sent that one request only. *)
(***************************************************************************)
SuccessStatus(status) == status >= 200 /\ status <= 299

C14_AsStated ==
    /\ last.exchanges \in {0, 1}
    /\ last.exchange.requests \in {0, 1}
    /\ last.exchanges = 0 => last.exchange.requests = 0
    /\ (last.exchange.request.sent
        /\ (~last.resp.transport \/ ~SuccessStatus(last.resp.status)))
       => /\ last.exchange.requests = 1
          /\ last.exchange.err = "ReqwestError"
          /\ last.err = "ReqwestError"
          /\ last.authorization = <<>>

(***************************************************************************)
(* C15: every exchange builds its own assertion.  A request that is sent   *)
(* bears the RS256 assertion over the claims built in that same exchange   *)
(* from the clock value read in it (issued-at its whole seconds, expiry 60 *)
(* seconds later, issuer the application id), signed with the private key  *)
(* of the parameters; when building the claims fails (TimeError) or        *)
(* signing fails (JwtError) no request is sent; and the manager has no     *)
(* field that keeps an assertion.                                          *)
(***************************************************************************)
C15_FreshAssertion ==
    /\ last.exchange.request.sent
       => /\ last.exchanges = 1
          /\ last.exchange.built
          /\ last.jwt_now.secs >= 0
          /\ last.exchange.request.bearer =
                [alg |-> "RS256",
                 claims |-> [iat |-> last.jwt_now.secs, exp |-> last.jwt_now.secs + 60,
                             iss |-> last.params.app_id],
                 key |-> last.params.private_key]
    /\ last.exchange.err \in {"TimeError", "JwtError"}
       => /\ ~last.exchange.request.sent
          /\ last.exchange.requests = 0
          /\ last.resp = NoResponse
          /\ last.err = last.exchange.err
    /\ (last.exchanges = 1 /\ last.jwt_now.secs < 0) => last.exchange.err = "TimeError"
    /\ DOMAIN mgr = {"exists", "client", "token", "fetch_time", "params"}

\* a refresh at 3301.5 seconds sent the assertion issued at 3301, by a
\* manager whose clock reads were other values at construction
C15_Witness ==
    /\ last.op = "header"
    /\ last.exchange.request.sent
    /\ last.jwt_now = [secs |-> 3301, nanos |-> NANOS_PER_SEC \div 2]
    /\ last.exchange.request.bearer.claims.iat = 3301
    /\ last.exchange.request.bearer.claims.exp = 3361
    /\ last.exchange.request.bearer.alg = "RS256"
    /\ last.exchange.err = "ReqwestError"
    /\ mgr.fetch_time = [secs |-> 0, nanos |-> 0]

\* the expires_at values of a well-formed response
WellFormedExpiry ==
    {JString(Expiry1), JString(Expiry2), JString(ExpiryFraction), JString(ExpiryLeap)}

\* the response of this step with the expires_at value `at` in place of its
\* own
RespWithExpiry(at) == [last'.resp EXCEPT !.body.expires_at = at]

\* the result of new(), which returns no header
NoHeaderOf(n) ==
    [err |-> n.err, self |-> n.self, exchange |-> n.exchange, exchanges |-> n.exchanges,
     authorization |-> <<>>]

\* what the call of this step does on the same manager, the same clock
\* values and the response r
SameCallOn(r) ==
    IF last'.op = "header"
    THEN HeaderOf(mgr, last'.now, last'.jwt_now, r, good'.at)
    ELSE NoHeaderOf(InstallationTokenNew(last'.params, TRUE, last'.jwt_now, r, good'.at))

(***************************************************************************)
(* C16: the expiry the service declares has no influence.  Take any call   *)
(* whose request was answered with a well-formed expires_at; the same call *)
(* on the same manager with the same clock values and the same response    *)
(* but any other well-formed expires_at makes the same exchange with the   *)
(* same request, leaves the same manager (token, fetch time, parameters,   *)
(* client) and returns the same header or error.  Only the parsed expiry   *)
(* itself differs.  (Runs that agree on everything but expires_at thus     *)
(* stay in the same manager state call after call.)                        *)
(***************************************************************************)
C16_ExpiryHasNoInfluence ==
    [][ (last'.op \in {"new", "header"}
         /\ last'.exchange.request.sent
         /\ last'.resp.body.expires_at \in WellFormedExpiry)
        => \A at \in WellFormedExpiry :
           \A other \in {SameCallOn(RespWithExpiry(at))} :
              /\ other.self = mgr'
              /\ other.err = last'.err
              /\ other.authorization = last'.authorization
              /\ other.exchanges = last'.exchanges
              /\ other.exchange.err = last'.exchange.err
              /\ other.exchange.request = last'.exchange.request
              /\ other.exchange.raw.token = last'.exchange.raw.token
              /\ (last'.exchange.err = "" /\ at # last'.resp.body.expires_at)
                 => other.exchange.raw.expires_at # last'.exchange.raw.expires_at ]_vars

\* a refresh that stored T1 from a response whose expiry was written with
\* an offset (2029-12-31T23:00:00Z)
C16_Witness ==
    /\ last.op = "header"
    /\ last.exchange.err = ""
    /\ last.resp.body = [token |-> JString(T1), expires_at |-> JString(Expiry2)]
    /\ last.exchange.raw.expires_at = [days |-> 21914, secs |-> 82800, nanos |-> 0]
    /\ mgr.token = T1
    /\ mgr.fetch_time = [secs |-> 0, nanos |-> 0]
    /\ last.authorization = TokenHeader(T1)

\* the request of this step is the one the parameters p and the client c
\* make: to the installation of p, with the user agent of c, bearing an
\* assertion issued by the application of p and signed with the key of p
RequestMadeWith(p, c) ==
    /\ last'.exchange.request.installation_id = p.installation_id
    /\ last'.exchange.request.user_agent = c.user_agent
    /\ last'.exchange.request.bearer.claims.iss = p.app_id
    /\ last'.exchange.request.bearer.key = p.private_key

(***************************************************************************)
(* C17: the parameters and the client of a manager are those of its        *)
(* construction.  new() stores the parameters it was given and the client  *)
(* built with their user agent, and makes its request with them; from then *)
(* on every step keeps the manager, its parameters (user agent, private    *)
(* key, application id, installation id) and its client as they are, a     *)
(* credential request changing at most the token and the fetch time, and   *)
(* the request of every refresh is made with those parameters and that     *)
(* client.                                                                 *)
(***************************************************************************)
C17_ParamsAndClientFixed ==
    [][ /\ (~mgr.exists /\ mgr'.exists)
           => /\ mgr'.params = last'.params
              /\ mgr'.client.user_agent = last'.params.user_agent
              /\ RequestMadeWith(mgr'.params, mgr'.client)
        /\ mgr.exists
           => /\ mgr' = [mgr EXCEPT !.token = mgr'.token, !.fetch_time = mgr'.fetch_time]
              /\ HeaderStep => last'.params = mgr.params
              /\ (HeaderStep /\ last'.exchange.request.sent)
                 => RequestMadeWith(mgr.params, mgr.client) ]_vars

\* a refresh by the manager of application 99 and installation 7 stored T2
C17_Witness ==
    /\ last.op = "header"
    /\ last.exchange.request.sent
    /\ last.exchange.err = ""
    /\ last.exchange.request.installation_id = 7
    /\ last.exchange.request.user_agent = UaGood
    /\ mgr.params.app_id = 99
    /\ mgr.params.installation_id = 7
    /\ mgr.client.user_agent = UaGood
    /\ mgr.token = T2

(***************************************************************************)
(* C18, as stated: whenever a credential request returns an error of any   *)
(* kind, InvalidHeaderValue after the refresh step included, the stored    *)
(* token and fetch time are those before the request.                      *)
(* (Refuted: a refresh that succeeds with a token no header value can      *)
(* carry has stored that token and stamped the fetch time before header()  *)
(* fails with InvalidHeaderValue.)                                         *)
(***************************************************************************)
C18_AsStated ==
    [][ (HeaderStep /\ last'.err # "")
        => /\ mgr'.token = mgr.token
           /\ mgr'.fetch_time = mgr.fetch_time ]_vars

(***************************************************************************)
(* C18, amended: whenever a credential request returns an error, the       *)
(* stored token and fetch time are those before the request, except when   *)
(* the error is InvalidHeaderValue and the request made an exchange: that  *)
(* exchange then succeeded with a token no header value can carry, and the *)
(* manager holds that token and the clock value read after the exchange.   *)
(***************************************************************************)
C18_ErrorLeavesStateUnlessRefreshed ==
    [][ (HeaderStep /\ last'.err # "")
        => /\ last'.authorization = <<>>
           /\ IF last'.err = "InvalidHeaderValue" /\ last'.exchanges = 1
              THEN /\ last'.exchange.err = ""
                   /\ ~Encodable(last'.exchange.raw.token)
                   /\ mgr'.token = last'.exchange.raw.token
                   /\ mgr'.fetch_time = good'.at
              ELSE /\ mgr'.token = mgr.token
                   /\ mgr'.fetch_time = mgr.fetch_time
                   /\ last'.err = "InvalidHeaderValue"
                      => (last'.exchanges = 0 /\ ~Encodable(mgr.token)) ]_vars

\* a refresh replaced the stored token by one with a line feed in it, and
\* the request failed with InvalidHeaderValue
C18_Witness ==
    /\ last.op = "header"
    /\ last.err = "InvalidHeaderValue"
    /\ last.exchanges = 1
    /\ last.exchange.err = ""
    /\ last.exchange.raw.token = TBad
    /\ mgr.token = TBad
    /\ mgr.fetch_time = good.at

(***************************************************************************)
(* C19: bounded token age.  Whenever a credential request returns a header *)
(* the token in it is the stored token, and either the request obtained it *)
(* by an exchange of its own, or the request made no exchange and its      *)
(* staleness check read a clock value not before the fetch time and less   *)
(* than 3301 seconds after it (at most 3300 whole seconds): no header      *)
(* carries a token the staleness check of its request measured as older.   *)
(***************************************************************************)
C19_BoundedTokenAge ==
    (last.op = "header" /\ last.err = "")
    => /\ last.authorization = TokenHeader(mgr.token)
       /\ \/ /\ last.exchanges = 1
             /\ last.exchange.err = ""
             /\ last.exchange.request.sent
             /\ mgr.token = last.exchange.raw.token
             /\ mgr.fetch_time = good.at
          \/ /\ last.exchanges = 0
             /\ TimeLeq(mgr.fetch_time, last.now)
             /\ ~ElapsedAtLeast(last.now, mgr.fetch_time, 3301)

\* a header returned with the stored T2, fetched at 0.5 s and checked at
\* 3301 s: 3300 whole seconds old
C19_Witness ==
    /\ last.op = "header"
    /\ last.err = ""
    /\ last.exchanges = 0
    /\ mgr.token = T2
    /\ mgr.fetch_time = [secs |-> 0, nanos |-> NANOS_PER_SEC \div 2]
    /\ last.now = [secs |-> 3301, nanos |-> 0]
    /\ last.authorization = TokenHeader(T2)

====
